---- MODULE Spec2Model ----
(***************************************************************************)
(* A model of the WireViz GraphViz rendering engine, wv_graphviz.py:       *)
(* the nested-table builder, the component renderer, the port/edge         *)
(* addressor and the tweak engine.                                         *)
(*                                                                         *)
(* Markup AST values are tagged records:                                   *)
(*   NoneV, Text(s), Td (contents, attribs), Tr (cells), Table (rows,      *)
(*   attribs).  Attributes are records keyed by the attribute name.        *)
(* Text that is only carried around (labels, ids) is a TLA+ string; the    *)
(* lines the tweak engine edits are sequences of one-character strings,    *)
(* because the engine works on them character by character.                *)
(***************************************************************************)
EXTENDS Integers, Sequences, FiniteSets, TLC

VARIABLES
    component,  \* the object of the data model at hand: a Connector, a Cable or a Mate
    op,         \* the operation that ran last ("none" before the first)
    arg,        \* the argument the last operation was called with
    ret,        \* what the last operation returned
    err,        \* the exception the last operation raised, or "none"
    dot_body,   \* dot.body, the serialized line sequence
    tweak,      \* the Tweak object: override and append
    warnings    \* the warnings printed so far, in order

vars == <<component, op, arg, ret, err, dot_body, tweak, warnings>>

(***************************************************************************)
(* Bounds of the model.                                                    *)
(***************************************************************************)
MaxLoops == 2
MaxWires == 3
MaxRows == 2
MaxLines == 2

(***************************************************************************)
(* Python values.                                                          *)
(***************************************************************************)
NoneV == [t |-> "None"]
NoAttribs == [n \in {} |-> 0]
NoErr == "none"

Digits == <<"0", "1", "2", "3", "4", "5", "6", "7", "8", "9">>

RECURSIVE Str(_)
\* str(n) / f"{n}" of a non-negative integer
Str(n) == IF n < 10 THEN Digits[n + 1]
          ELSE Str(n \div 10) \o Digits[(n % 10) + 1]

RECURSIVE Join(_, _)
\* sep.join(strs)
Join(sep, strs) ==
    IF Len(strs) = 0 THEN ""
    ELSE IF Len(strs) = 1 THEN strs[1]
    ELSE strs[1] \o sep \o Join(sep, Tail(strs))

RECURSIVE SelectIdx(_, _, _)
\* the elements of s whose position satisfies Keep, in order
SelectIdx(s, Keep(_), i) ==
    IF i > Len(s) THEN <<>>
    ELSE (IF Keep(i) THEN <<s[i]>> ELSE <<>>) \o SelectIdx(s, Keep, i + 1)

(***************************************************************************)
(* Markup AST (wv_html): Table, Tr, Td.                                    *)
(***************************************************************************)
Text(s) == [t |-> "Text", s |-> s]
Td(contents, attribs) == [t |-> "Td", contents |-> contents, attribs |-> attribs]
Tr(cells) == [t |-> "Tr", cells |-> cells]
Table(rows, attribs) == [t |-> "Table", rows |-> rows, attribs |-> attribs]

IsTable(x) == x.t = "Table"
IsTd(x) == x.t = "Td"
IsNone(x) == x.t = "None"

(***************************************************************************)
(* Table Builder: make_list_of_cells and nested_table.                     *)
(* A logical row is NoneV, a Td, a scalar (Text or Table) or a Python list *)
(* of candidates, List(items).  Tr and Table hold their children as a      *)
(* sequence; a single child given to the constructor is the one-element    *)
(* sequence.                                                               *)
(***************************************************************************)
List(items) == [t |-> "List", items |-> items]
IsList(x) == x.t = "List"

\* Td(item) with no attributes, as make_list_of_cells wraps a candidate
WrapTd(item) == IF IsTd(item) THEN item ELSE Td(item, NoAttribs)

make_list_of_cells(inp) ==
    IF IsList(inp)
    THEN [i \in 1..Len(inp.items) |-> WrapTd(inp.items[i])]
    ELSE IF IsNone(inp) THEN <<>>
    ELSE IF IsTd(inp) THEN <<inp>>
    ELSE <<Td(inp, NoAttribs)>>

\* attribs.get("id", "")
AttribId(attribs) == IF "id" \in DOMAIN attribs THEN attribs.id ELSE <<>>

\* "!" in s, s a sequence of characters
HasBang(s) == \E i \in 1..Len(s) : s[i] = "!"

\* the cells of lst whose contents is not None
NonNullCells(lst) == SelectSeq(lst, LAMBDA c : ~IsNone(c.contents))

\* ReuseInner without the look at the "!" of the id
ReuseInnerIgnoringMark(cells) ==
    /\ Len(cells) = 1
    /\ IsTable(cells[1].contents)

\* the condition of nested_table under which the only cell's Table is reused
ReuseInner(cells) ==
    /\ Len(cells) = 1
    /\ IsTable(cells[1].contents)
    /\ ~HasBang(AttribId(cells[1].contents.attribs))

SubTableAttribs == [border |-> 0, cellborder |-> 1, cellpadding |-> 3, cellspacing |-> 0]
OuterTableAttribs == [border |-> 0, cellspacing |-> 0, cellpadding |-> 0]

\* the inner table one surviving cell list contributes
InnerTable(cells) ==
    IF ReuseInner(cells) THEN cells[1].contents
    ELSE Table(<<Tr(cells)>>, SubTableAttribs)

RECURSIVE NestedRows(_)
\* the loop of nested_table over cell_lists
NestedRows(cell_lists) ==
    IF Len(cell_lists) = 0 THEN <<>>
    ELSE LET lst == Head(cell_lists)
             cells == NonNullCells(lst)
             rest == NestedRows(Tail(cell_lists))
         IN  IF Len(lst) = 0 THEN rest
             ELSE IF Len(cells) = 0 THEN rest
             ELSE <<Tr(<<Td(InnerTable(cells), NoAttribs)>>)>> \o rest

\* DummyRows without the dummy row
DummyRowsNone(rows) == rows

\* the dummy row of an otherwise empty table
DummyRows(rows) ==
    IF Len(rows) = 0 THEN <<Tr(<<Td(Text(""), NoAttribs)>>)>> ELSE rows

nested_table(lines) ==
    LET cell_lists == [i \in 1..Len(lines) |-> make_list_of_cells(lines[i])]
    IN  Table(DummyRows(NestedRows(cell_lists)), OuterTableAttribs)

(***************************************************************************)
(* Colors (wv_colors.MultiColor): a color is the sequence of the html      *)
(* codes of its sub-colors; the empty sequence is the falsy "no color".    *)
(***************************************************************************)
Black == "#000000"

\* MultiColor.html_padded_list: the html codes of the sub-colors, in order
html_padded_list(color) == color

\* MultiColor.html_padded: the html codes joined for an edge color
html_padded(color) == Join(":", color)

\* str(color)
ColorStr(color) == Join(":", color)

\* seq[::-1]
Reverse(seq) == [i \in 1..Len(seq) |-> seq[Len(seq) + 1 - i]]

(***************************************************************************)
(* Port/Edge Addressor and the pin and wire cells.                         *)
(***************************************************************************)
\* f"p{n}{side}"
PinPort(n, side) == "p" \o Str(n) \o side

\* f"w{n}"
WirePort(n) == "w" \o Str(n)

\* any([_pin.color for _pin in connector.pin_objects.values()])
has_pincolors(connector) ==
    \E i \in 1..Len(connector.pin_objects) : Len(connector.pin_objects[i].color) > 0

color_minitable(color) ==
    IF Len(color) = 0 THEN Text("")
    ELSE Table(
           <<Tr([i \in 1..Len(color) |->
                   Td(Text(""), [bgcolor |-> color[i], height |-> 8, width |-> 8,
                                 fixedsize |-> "true"])])>>,
           [border |-> 1, cellborder |-> 0, cellspacing |-> 0, height |-> 8,
            width |-> 8 * Len(color) + 2, fixedsize |-> "true"])

gv_pin_row(pin, connector) ==
    Tr(<<
        IF connector.ports_left
        THEN Td(Text(pin.id), [port |-> PinPort(pin.index + 1, "l")]) ELSE NoneV,
        Td(Text(pin.label), [delete_if_empty |-> TRUE]),
        IF has_pincolors(connector)
        THEN Td(Text(IF Len(pin.color) > 0 THEN ColorStr(pin.color) ELSE ""),
                [sides |-> "TBL"]) ELSE NoneV,
        IF has_pincolors(connector)
        THEN Td(color_minitable(pin.color), [sides |-> "TBR"]) ELSE NoneV,
        IF connector.ports_right
        THEN Td(Text(pin.id), [port |-> PinPort(pin.index + 1, "r")]) ELSE NoneV
    >>)

\* every pin is shown: should_show_pin is the data model's, and true by default
gv_pin_table(connector) ==
    Table([i \in 1..Len(connector.pin_objects) |->
             gv_pin_row(connector.pin_objects[i], connector)],
          [border |-> 0, cellborder |-> 1, cellpadding |-> 3, cellspacing |-> 0])

\* loop_side with the right side tried first
loop_side_right_first(connector) ==
    IF connector.ports_right THEN "r"
    ELSE IF connector.ports_left THEN "l"
    ELSE "none"

\* the side of the loops: "l", "r" or "none" (the exception)
loop_side(connector) ==
    IF connector.ports_left THEN "l"
    ELSE IF connector.ports_right THEN "r"
    ELSE "none"

\* the compass of the loops
loop_dir(connector) == IF connector.ports_left THEN "w" ELSE "e"

\* one end of a loop edge: f"{designator}:p{n}{loop_side}:{loop_dir}"
LoopEnd(connector, n) ==
    connector.designator \o ":" \o PinPort(n, loop_side(connector))
        \o ":" \o loop_dir(connector)

\* the edges gv_connector_loops returns when it does not raise
gv_connector_loops(connector) ==
    [i \in 1..Len(connector.loops) |->
        <<LoopEnd(connector, connector.loops[i][1]),
          LoopEnd(connector, connector.loops[i][2])>>]

\* color_list of gv_wire_cell
color_list(wire) ==
    IF Len(wire.color) > 0
    THEN <<Black>> \o html_padded_list(wire.color) \o <<Black>>
    ELSE <<Black>>

\* the order in which gv_wire_cell walks color_list
BandOrder(colors) == Reverse(colors)

gv_wire_cell(wire, colspan) ==
    LET bands == BandOrder(color_list(wire))
        wire_inner_rows ==
            [j \in 1..Len(bands) |->
                Tr(<<Td(Text(""),
                        [bgcolor |-> IF bands[j] # "" THEN bands[j] ELSE Black,
                         border |-> 0, cellpadding |-> 0, colspan |-> colspan,
                         height |-> 2])>>)]
        wire_inner_table ==
            Table(wire_inner_rows, [border |-> 0, cellborder |-> 0, cellspacing |-> 0])
    IN  Td(wire_inner_table,
           [border |-> 0, cellspacing |-> 0, cellpadding |-> 0, colspan |-> colspan,
            height |-> 2 * Len(color_list(wire)), port |-> WirePort(wire.index + 1)])

\* bom_bubble(id)
bom_bubble(id) ==
    IF IsNone(id) THEN NoneV
    ELSE Table(<<Tr(<<Td(id, [border |-> 1, cellpadding |-> 0, fixedsize |-> "true",
                              style |-> "rounded", height |-> 20, width |-> 20])>>)>>,
               [border |-> 0])

\* str(pin) of a connection's end
PinStr(pin) == pin.parent \o ":" \o pin.id

IsShield(wire) == wire.kind = "shield"

SpacerRow == Tr(<<Td(Text("&nbsp;"), NoAttribs)>>)

\* the texts of the connection ends of the given side that go via the wire
EndsVia(cable, wire, side) ==
    LET conns == SelectSeq(cable.connections,
                           LAMBDA c : c.via.id = wire.id /\ ~IsNone(c[side]))
    IN  [k \in 1..Len(conns) |-> PinStr(conns[k][side])]

\* wireinfo, without its None and empty parts
wireinfo(cable, wire) ==
    SelectSeq(
        (IF cable.show_wirenumbers /\ ~IsShield(wire) THEN <<wire.id>> ELSE <<>>)
            \o <<ColorStr(wire.color), wire.label>>,
        LAMBDA wi : wi # "")

\* cells_above, after its None cells are dropped
cells_above(cable, wire) ==
    <<Td(Text(" " \o Join(", ", EndsVia(cable, wire, "from_"))), [align |-> "left"])>>
    \o (IF cable.category = "bundle"
        THEN <<Td(bom_bubble(wire.bom_id), NoAttribs)>> ELSE <<>>)
    \o <<Td(Text(Join(":", wireinfo(cable, wire))), NoAttribs),
         Td(Text(Join(", ", EndsVia(cable, wire, "to")) \o " "), [align |-> "right"])>>

\* BreakBefore without the inserted_break_inbetween flag
BreakBeforeEveryShield(wire, inserted_break_inbetween) == IsShield(wire)

\* whether the loop inserts the break before this wire
BreakBefore(wire, inserted_break_inbetween) ==
    IsShield(wire) /\ ~inserted_break_inbetween

RECURSIVE ConductorRows(_, _, _)
\* the rows the loop of gv_conductor_table appends from wire number i on
ConductorRows(cable, i, inserted_break_inbetween) ==
    IF i > Len(cable.wire_objects) THEN <<>>
    ELSE LET wire == cable.wire_objects[i]
             brk == BreakBefore(wire, inserted_break_inbetween)
             above == cells_above(cable, wire)
         IN  (IF brk THEN <<SpacerRow>> ELSE <<>>)
             \o <<Tr(above), Tr(<<gv_wire_cell(wire, Len(above))>>)>>
             \o ConductorRows(cable, i + 1, inserted_break_inbetween \/ brk)

gv_conductor_table(cable) ==
    Table(<<SpacerRow>> \o ConductorRows(cable, 1, FALSE) \o <<SpacerRow>>,
          [border |-> 0, cellborder |-> 0, cellspacing |-> 0])

\* the port segment of a pin end in gv_edge_wire
EdgePinPort(styles, pin, side) ==
    IF styles[pin.parent] # "simple" THEN ":" \o PinPort(pin.index + 1, side) ELSE ""

\* (color, code_left_1, code_left_2, code_right_1, code_right_2)
gv_edge_wire(styles, cable, connection) ==
    LET via == connection.via
        color == IF Len(via.color) > 0
                 THEN Black \o ":" \o html_padded(via.color) \o ":" \o Black
                 ELSE Black
        has_from == ~IsNone(connection.from_)
        has_to == ~IsNone(connection.to)
        wport == ":" \o WirePort(via.index + 1)
    IN  <<Text(color),
          IF has_from
          THEN Text(connection.from_.parent
                    \o EdgePinPort(styles, connection.from_, "r") \o ":e")
          ELSE NoneV,
          IF has_from THEN Text(via.parent \o wport \o ":w") ELSE NoneV,
          IF has_to THEN Text(via.parent \o wport \o ":e") ELSE NoneV,
          IF has_to
          THEN Text(connection.to.parent
                    \o EdgePinPort(styles, connection.to, "l") \o ":w")
          ELSE NoneV>>

\* ArrowDirection.<X>.name.lower()
DirName(direction) ==
    CASE direction = "NONE" -> "none"
      [] direction = "BACK" -> "back"
      [] direction = "FORWARD" -> "forward"
      [] direction = "BOTH" -> "both"

\* whether gv_edge_mate raises "Unknown type of mate"
MateUnknown(mate) == mate.t \notin {"MatePin", "MateComponent"}

\* (color, dir, code_from, code_to) of a MatePin or MateComponent
gv_edge_mate(mate) ==
    LET color == IF mate.arrow.weight = "SINGLE" THEN Black ELSE Black \o ":" \o Black
        from_port_str == IF mate.t = "MatePin"
                         THEN ":" \o PinPort(mate.from_.index + 1, "r") ELSE ""
        to_port_str == IF mate.t = "MatePin"
                       THEN ":" \o PinPort(mate.to.index + 1, "l") ELSE ""
        from_designator == IF mate.t = "MatePin" THEN mate.from_.parent ELSE mate.from_.s
        to_designator == IF mate.t = "MatePin" THEN mate.to.parent ELSE mate.to.s
    IN  <<color, DirName(mate.arrow.direction),
          from_designator \o from_port_str \o ":e",
          to_designator \o to_port_str \o ":w">>

(***************************************************************************)
(* Component Renderer: gv_node_component.                                  *)
(* The components of the model carry no part numbers, image, notes or      *)
(* additional components, so those rows are None.                          *)
(***************************************************************************)
IsConnector(c) == c.t = "Connector"
IsCable(c) == c.t = "Cable"
IsMate(c) == ~IsConnector(c) /\ ~IsCable(c)

\* lines 29-31: the side a connector with no side gets
DefaultSide(c) ==
    IF IsConnector(c) /\ ~(c.ports_left \/ c.ports_right)
    THEN [c EXCEPT !.ports_left = TRUE]
    ELSE c

\* tag.update_attribs(**new)
update_attribs(tag, new) == [tag EXCEPT !.attribs = new @@ tag.attribs]

colored_cell(contents, bgcolor) == Td(Text(contents), [bgcolor |-> bgcolor])

colorbar_cell(color) ==
    Td(Table(<<Tr([i \in 1..Len(color) |->
                     Td(Text(""), [bgcolor |-> color[i], width |-> 8])])>>,
             [border |-> 0, cellspacing |-> 0]),
       [cellspacing |-> 0, cellpadding |-> 0])

\* str(color) if color else None
ColorName(color) == IF Len(color) > 0 THEN Text(ColorStr(color)) ELSE NoneV

\* colorbar_cell(color) if color else None
ColorBar(color) == IF Len(color) > 0 THEN colorbar_cell(color) ELSE NoneV

line_info(c) ==
    IF IsConnector(c)
    THEN List(<<bom_bubble(c.bom_id), c.type, c.subtype,
                IF c.show_pincount THEN Text(Str(c.pincount) \o "-pin") ELSE NoneV,
                ColorName(c.color), ColorBar(c.color)>>)
    ELSE List(<<IF c.category # "bundle" THEN bom_bubble(c.bom_id) ELSE NoneV,
                c.type,
                IF c.show_wirecount THEN Text(Str(c.wirecount) \o "x") ELSE NoneV,
                c.gauge_str_with_equiv,
                IF c.shield THEN Text("+ S") ELSE NoneV,
                c.length_str,
                ColorName(c.color), ColorBar(c.color)>>)

line_ports(c) ==
    IF IsConnector(c)
    THEN (IF c.style # "simple" THEN gv_pin_table(c) ELSE NoneV)
    ELSE gv_conductor_table(c)

\* the list lines of gv_node_component
NodeLines(c) ==
    <<IF c.show_name THEN colored_cell(c.designator, c.bgcolor_title) ELSE NoneV,
      NoneV,
      line_info(c),
      line_ports(c),
      NoneV,
      NoneV,
      NoneV,
      List(<<c.notes>>)>>

\* lines 93-100: the ports of a simple connector's table and first cell
SimplePorts(tbl) ==
    LET t1 == update_attribs(tbl, [port |-> "p1r"])
    IN  [t1 EXCEPT !.rows[1].cells[1] = update_attribs(@, [port |-> "p1l"])]

\* the Table gv_node_component returns for the component as it is after
\* the default side is set
gv_node_component(c) ==
    LET tbl == nested_table(NodeLines(c))
    IN  IF IsConnector(c) /\ c.style = "simple" THEN SimplePorts(tbl) ELSE tbl

(***************************************************************************)
(* The data model the harness specification draws from.                    *)
(***************************************************************************)
Red == "#ff0000"
Green == "#00ff00"
Blue == "#0000ff"

PinIndices == {0, 1, 2}
Styles == {"simple", "default"}

\* the sequences over S of length at most n
SeqsUpTo(S, n) == UNION {[1..k -> S] : k \in 0..n}

LoopPairs == {p \in PinIndices \X PinIndices : p[1] # p[2]}
LoopLists == SeqsUpTo(LoopPairs, MaxLoops)

\* pin number i of a connector; the first pin is colored when asked
MkPin(i, parent, colored) ==
    [t |-> "Pin", index |-> i - 1, id |-> Str(i), label |-> "", parent |-> parent,
     color |-> IF colored /\ i = 1 THEN <<Red>> ELSE <<>>]

MkConnector(pl, pr, style, loops, colored) ==
    [t |-> "Connector", designator |-> "X1", show_name |-> TRUE,
     bgcolor_title |-> "#ffffff", bom_id |-> NoneV, type |-> Text("D-Sub"),
     subtype |-> NoneV, show_pincount |-> TRUE, pincount |-> Cardinality(PinIndices),
     color |-> <<>>, notes |-> NoneV,
     ports_left |-> pl, ports_right |-> pr, style |-> style, loops |-> loops,
     pin_objects |-> [i \in 1..Cardinality(PinIndices) |-> MkPin(i, "X1", colored)]]

Connectors ==
    {MkConnector(pl, pr, style, loops, colored) :
        pl \in BOOLEAN, pr \in BOOLEAN, style \in Styles,
        loops \in LoopLists, colored \in BOOLEAN}

\* what a cable's wire list is built from: a kind and a color
WireKinds ==
    {[kind |-> "wire", color |-> c] : c \in {<<>>, <<Red>>, <<Red, Green>>,
                                             <<Red, Green, Blue>>}}
    \cup {[kind |-> "shield", color |-> <<>>]}

MkWire(k, i) ==
    [t |-> "Wire", kind |-> k.kind, color |-> k.color, index |-> i - 1, id |-> Str(i),
     label |-> "", parent |-> "W1",
     bom_id |-> IF k.kind = "wire" THEN Text("7") ELSE NoneV]

\* the ends a connection of the model may have
EndPairs ==
    {<<MkPin(1, "X1", FALSE), NoneV>>,
     <<NoneV, MkPin(3, "X2", FALSE)>>,
     <<MkPin(2, "X1", FALSE), MkPin(1, "X2", FALSE)>>}

MkConnection(ends, wire) == [from_ |-> ends[1], via |-> wire, to |-> ends[2]]

\* the connection lists of a cable with these wires: none, or one connection
\* via the first wire
ConnLists(wires) ==
    {<<>>} \cup (IF Len(wires) = 0 THEN {}
                 ELSE {<<MkConnection(ends, wires[1])>> : ends \in EndPairs})

MkCables(kinds, category, show_wirenumbers) ==
    LET wires == [i \in 1..Len(kinds) |-> MkWire(kinds[i], i)]
    IN  {[t |-> "Cable", designator |-> "W1", show_name |-> TRUE,
          bgcolor_title |-> "#ffffff", bom_id |-> Text("3"), type |-> NoneV,
          show_wirecount |-> TRUE, wirecount |-> Len(wires),
          gauge_str_with_equiv |-> NoneV, length_str |-> NoneV,
          shield |-> \E i \in 1..Len(wires) : IsShield(wires[i]),
          color |-> <<>>, notes |-> NoneV,
          category |-> category, show_wirenumbers |-> show_wirenumbers,
          wire_objects |-> wires, connections |-> conns] : conns \in ConnLists(wires)}

Cables ==
    UNION {MkCables(kinds, category, swn) :
              kinds \in SeqsUpTo(WireKinds, MaxWires),
              category \in {"cable", "bundle"}, swn \in BOOLEAN}

ArrowWeights == {"SINGLE", "DOUBLE"}
ArrowDirections == {"NONE", "BACK", "FORWARD", "BOTH"}

Mates ==
    {[t |-> "MatePin", from_ |-> MkPin(i, "X1", FALSE), to |-> MkPin(j, "X2", FALSE),
      arrow |-> [weight |-> w, direction |-> d]] :
        i \in {1, 3}, j \in {1, 2}, w \in ArrowWeights, d \in ArrowDirections}
    \cup {[t |-> k, from_ |-> Text("X1"), to |-> Text("X2"),
           arrow |-> [weight |-> w, direction |-> d]] :
        k \in {"MateComponent", "Mate"}, w \in ArrowWeights, d \in ArrowDirections}

\* harness.connectors[designator].style, for the two connectors wires end on
StyleMaps == [{"X1", "X2"} -> Styles]

NoTweak == [override |-> NoneV, append |-> NoneV]

(***************************************************************************)
(* The harness specification: one component of the data model, rendered    *)
(* and addressed by the functions of the module, one call per step.        *)
(***************************************************************************)
TweakIdle == UNCHANGED <<dot_body, tweak, warnings>>

Init ==
    /\ component \in Connectors \cup Cables \cup Mates
    /\ op = "none"
    /\ arg = NoneV
    /\ ret = NoneV
    /\ err = NoErr
    /\ dot_body = <<>>
    /\ tweak = NoTweak
    /\ warnings = <<>>

NodeComponent ==
    /\ IsConnector(component) \/ IsCable(component)
    /\ op' = "gv_node_component"
    /\ arg' = component
    /\ component' = DefaultSide(component)
    /\ ret' = gv_node_component(component')
    /\ err' = NoErr
    /\ TweakIdle

ConnectorLoops ==
    /\ IsConnector(component)
    /\ op' = "gv_connector_loops"
    /\ arg' = component
    /\ IF loop_side(component) = "none"
       THEN err' = "No side for loops" /\ ret' = NoneV
       ELSE err' = NoErr /\ ret' = gv_connector_loops(component)
    /\ UNCHANGED component
    /\ TweakIdle

PinRow ==
    /\ IsConnector(component)
    /\ \E i \in 1..Len(component.pin_objects) :
        /\ arg' = component.pin_objects[i]
        /\ ret' = gv_pin_row(component.pin_objects[i], component)
    /\ op' = "gv_pin_row"
    /\ err' = NoErr
    /\ UNCHANGED component
    /\ TweakIdle

ConductorTable ==
    /\ IsCable(component)
    /\ op' = "gv_conductor_table"
    /\ arg' = component
    /\ ret' = gv_conductor_table(component)
    /\ err' = NoErr
    /\ UNCHANGED component
    /\ TweakIdle

WireCell ==
    /\ IsCable(component)
    /\ \E i \in 1..Len(component.wire_objects) :
        LET wire == component.wire_objects[i]
            colspan == Len(cells_above(component, wire))
        IN  /\ arg' = [wire |-> wire, colspan |-> colspan]
            /\ ret' = gv_wire_cell(wire, colspan)
    /\ op' = "gv_wire_cell"
    /\ err' = NoErr
    /\ UNCHANGED component
    /\ TweakIdle

EdgeWire ==
    /\ IsCable(component)
    /\ \E k \in 1..Len(component.connections), styles \in StyleMaps :
        /\ arg' = [styles |-> styles, connection |-> component.connections[k]]
        /\ ret' = gv_edge_wire(styles, component, component.connections[k])
    /\ op' = "gv_edge_wire"
    /\ err' = NoErr
    /\ UNCHANGED component
    /\ TweakIdle

EdgeMate ==
    /\ IsMate(component)
    /\ \E styles \in StyleMaps : arg' = [styles |-> styles, mate |-> component]
    /\ IF MateUnknown(component)
       THEN err' = "Unknown type of mate" /\ ret' = NoneV
       ELSE err' = NoErr /\ ret' = gv_edge_mate(component)
    /\ op' = "gv_edge_mate"
    /\ UNCHANGED component
    /\ TweakIdle

Next ==
    \/ NodeComponent
    \/ ConnectorLoops
    \/ PinRow
    \/ ConductorTable
    \/ WireCell
    \/ EdgeWire
    \/ EdgeMate

Spec == Init /\ [][Next]_vars

(***************************************************************************)
(* Properties of the harness specification.                                *)
(***************************************************************************)

\* C1: rendering never mutates the data model: after gv_node_component
\* returns, the component (every field, ports_left and ports_right among
\* them) is what it was when the call was made.
C1_RenderingNeverMutates ==
    op = "gv_node_component" => component = arg

\* the stripe a wire of this color should get, first inner row to last
ExpectedBands(color) ==
    IF Len(color) > 0 THEN <<Black>> \o color \o <<Black>> ELSE <<Black>>

\* C3: the stripe of a wire with sub-colors c1..cN has the N+2 bands black,
\* c1, ..., cN, black from the first inner row to the last, a colorless wire
\* or shield has one black band, and the cell is 2 high per band.
C3_StripeBands ==
    op = "gv_wire_cell" =>
        LET rows == ret.contents.rows
            expected == ExpectedBands(arg.wire.color)
        IN  /\ Len(rows) = Len(expected)
            /\ \A j \in 1..Len(rows) :
                   /\ Len(rows[j].cells) = 1
                   /\ rows[j].cells[1].attribs.bgcolor = expected[j]
            /\ ret.attribs.height = 2 * Len(rows)

\* the port attribute of a cell of a pin row, "" for a cell that is None
PortOf(cell) == IF IsNone(cell) THEN "" ELSE cell.attribs.port

\* C4: every port identifier emitted for the pin or wire of stored index i
\* carries the number i+1: in gv_pin_row, gv_wire_cell, gv_edge_wire,
\* gv_edge_mate and, for a loop pair of pin indices (a, b), in the loop
\* edges of gv_connector_loops.
C4_PortsOneBased ==
    /\ op = "gv_pin_row" =>
           /\ PortOf(ret.cells[1]) \in {"", "p" \o Str(arg.index + 1) \o "l"}
           /\ PortOf(ret.cells[5]) \in {"", "p" \o Str(arg.index + 1) \o "r"}
    /\ op = "gv_wire_cell" => ret.attribs.port = "w" \o Str(arg.wire.index + 1)
    /\ op = "gv_edge_wire" =>
           LET c == arg.connection
               w == "W1:w" \o Str(c.via.index + 1)
           IN  /\ ~IsNone(c.from_) =>
                     /\ ret[3].s = w \o ":w"
                     /\ arg.styles[c.from_.parent] # "simple" =>
                            ret[2].s = c.from_.parent \o ":p"
                                         \o Str(c.from_.index + 1) \o "r:e"
               /\ ~IsNone(c.to) =>
                     /\ ret[4].s = w \o ":e"
                     /\ arg.styles[c.to.parent] # "simple" =>
                            ret[5].s = c.to.parent \o ":p"
                                         \o Str(c.to.index + 1) \o "l:w"
    /\ (op = "gv_edge_mate" /\ arg.mate.t = "MatePin") =>
           /\ ret[3] = arg.mate.from_.parent \o ":p"
                         \o Str(arg.mate.from_.index + 1) \o "r:e"
           /\ ret[4] = arg.mate.to.parent \o ":p"
                         \o Str(arg.mate.to.index + 1) \o "l:w"
    /\ (op = "gv_connector_loops" /\ err = NoErr) =>
           \A k \in 1..Len(arg.loops) :
               \E side \in {"l:w", "r:e"} :
                   /\ ret[k][1] = "X1:p" \o Str(arg.loops[k][1] + 1) \o side
                   /\ ret[k][2] = "X1:p" \o Str(arg.loops[k][2] + 1) \o side

IsSpacer(row) ==
    /\ Len(row.cells) = 1
    /\ row.cells[1].contents = Text("&nbsp;")

\* the row above a wire: it starts with the left-aligned cell of the ends
IsAbove(row) ==
    /\ Len(row.cells) >= 3
    /\ "align" \in DOMAIN row.cells[1].attribs
    /\ row.cells[1].attribs.align = "left"

\* the stripe row of the wire number i of the cable
IsStripe(row, i) ==
    /\ Len(row.cells) = 1
    /\ IsTable(row.cells[1].contents)
    /\ "port" \in DOMAIN row.cells[1].attribs
    /\ row.cells[1].attribs.port = "w" \o Str(i)

Shields(wires) == {i \in 1..Len(wires) : wires[i].kind = "shield"}

\* the first shield of a wire list that has one
FirstShield(wires) == CHOOSE i \in Shields(wires) : \A j \in Shields(wires) : i <= j

\* C8: gv_conductor_table emits a leading spacer row, for each entry in
\* harness order its 'above' row immediately followed by its stripe row,
\* and a trailing spacer row; one more spacer row, immediately before the
\* first shield entry, exactly when there is a shield; 2 + 2n + (1 if any
\* shield) rows in all.
C8_ConductorRows ==
    op = "gv_conductor_table" =>
        LET rows == ret.rows
            wires == arg.wire_objects
            n == Len(wires)
            shielded == Shields(wires) # {}
            extra == IF shielded THEN 1 ELSE 0
            \* where the 'above' row of entry i must be
            at(i) == 2 * i + (IF shielded /\ i >= FirstShield(wires) THEN 1 ELSE 0)
        IN  /\ Len(rows) = 2 + 2 * n + extra
            /\ IsSpacer(rows[1])
            /\ IsSpacer(rows[Len(rows)])
            /\ \A i \in 1..n : IsAbove(rows[at(i)]) /\ IsStripe(rows[at(i) + 1], i)
            /\ shielded => IsSpacer(rows[at(FirstShield(wires)) - 1])
            /\ Cardinality({k \in 1..Len(rows) : IsSpacer(rows[k])}) = 2 + extra

\* a cable whose entries are shield, wire, shield has been laid out
C8_Witness ==
    /\ op = "gv_conductor_table"
    /\ Len(arg.wire_objects) = 3
    /\ Shields(arg.wire_objects) = {1, 3}
    /\ Len(ret.rows) = 9

\* C9: gv_connector_loops raises, returning no edges, exactly when the
\* connector has neither side set at the time of the call; otherwise it
\* returns one edge per loop pair in order, both ends on side l with compass
\* w when ports_left is set (also when both are), on side r with compass e
\* when ports_right alone is set; loop [1,2] on a left-sided connector gives
\* (X1:p1l:w, X1:p2l:w).
C9_ConnectorLoops ==
    op = "gv_connector_loops" =>
        LET side == IF arg.ports_left THEN "l:w" ELSE "r:e"
        IN  /\ (err # NoErr) <=> (~arg.ports_left /\ ~arg.ports_right)
            /\ err # NoErr => err = "No side for loops" /\ ret = NoneV
            /\ err = NoErr =>
                  /\ Len(ret) = Len(arg.loops)
                  /\ \A k \in 1..Len(ret) :
                         ret[k] = <<"X1:p" \o Str(arg.loops[k][1]) \o side,
                                    "X1:p" \o Str(arg.loops[k][2]) \o side>>
            /\ (arg.ports_left /\ ~arg.ports_right /\ arg.loops = <<<<1, 2>>>>) =>
                   ret = <<<<"X1:p1l:w", "X1:p2l:w">>>>

\* the loop [1,2] of a connector with both sides set has been laid on the left
C9_Witness ==
    /\ op = "gv_connector_loops"
    /\ arg.ports_left /\ arg.ports_right
    /\ arg.loops = <<<<1, 2>>>>
    /\ ret = <<<<"X1:p1l:w", "X1:p2l:w">>>>

\* the endpoint a pin of a connector of that style should be addressed by:
\* <designator>:<compass> for a simple connector, and
\* <designator>:p<index+1><side>:<compass> otherwise
PinEndpoint(styles, pin, side, compass) ==
    IF styles[pin.parent] = "simple"
    THEN pin.parent \o ":" \o compass
    ELSE pin.parent \o ":p" \o Str(pin.index + 1) \o side \o ":" \o compass

\* the two pin endpoints gv_edge_wire returned are as PinEndpoint tells
WireEndpointsAddressed ==
    (op = "gv_edge_wire" /\ err = NoErr) =>
        /\ ~IsNone(arg.connection.from_) =>
               ret[2] = Text(PinEndpoint(arg.styles, arg.connection.from_, "r", "e"))
        /\ ~IsNone(arg.connection.to) =>
               ret[5] = Text(PinEndpoint(arg.styles, arg.connection.to, "l", "w"))

\* the two endpoints gv_edge_mate returned for a MatePin are as PinEndpoint
\* tells
MateEndpointsAddressed ==
    (op = "gv_edge_mate" /\ err = NoErr /\ arg.mate.t = "MatePin") =>
        /\ ret[3] = PinEndpoint(arg.styles, arg.mate.from_, "r", "e")
        /\ ret[4] = PinEndpoint(arg.styles, arg.mate.to, "l", "w")

\* C11: every endpoint that addresses a pin of a simple-style connector
\* omits the port token and reads <designator>:<compass> (e for an exit to
\* the right, w for an entry from the left), for both endpoints of
\* gv_edge_wire and for both endpoints of gv_edge_mate for a MatePin; pins
\* of non-simple connectors are addressed <designator>:p<index+1><side>:
\* <compass>.
C11_SimpleEndpoints == WireEndpointsAddressed /\ MateEndpointsAddressed

(***************************************************************************)
(* The table specification: nested_table applied to a list of logical      *)
(* rows drawn from LogicalRowLists.                                        *)
(***************************************************************************)
PlainTable == Table(<<Tr(<<Td(Text("x"), NoAttribs)>>)>>, [border |-> 0])
NamedTable == Table(<<Tr(<<Td(Text("y"), NoAttribs)>>)>>,
                    [border |-> 0, id |-> <<"i", "d">>])
MarkedTable == Table(<<Tr(<<Td(Text("z"), NoAttribs)>>)>>,
                     [border |-> 0, id |-> <<"!">>])

LogicalRows ==
    {NoneV, Text("a"), Text(""), PlainTable, NamedTable, MarkedTable,
     Td(PlainTable, [sides |-> "TLR"]), Td(MarkedTable, NoAttribs),
     Td(NoneV, NoAttribs), Td(Text("b"), [bgcolor |-> Red]),
     List(<<>>), List(<<NoneV>>), List(<<NoneV, NoneV>>),
     List(<<Td(NoneV, NoAttribs), NoneV>>),
     List(<<PlainTable>>), List(<<NoneV, PlainTable>>), List(<<MarkedTable, NoneV>>),
     List(<<Text("a"), PlainTable>>), List(<<PlainTable, NamedTable>>),
     List(<<Text("a"), NoneV, Text("b")>>),
     List(<<NoneV, Td(NamedTable, [sides |-> "BLR"]), NoneV>>),
     List(<<Text("")>>)}

LogicalRowLists == SeqsUpTo(LogicalRows, MaxRows)

InitTable ==
    /\ component = NoneV
    /\ op = "none"
    /\ arg \in LogicalRowLists
    /\ ret = NoneV
    /\ err = NoErr
    /\ dot_body = <<>>
    /\ tweak = NoTweak
    /\ warnings = <<>>

NestedTable ==
    /\ op = "none"
    /\ op' = "nested_table"
    /\ ret' = nested_table(arg)
    /\ UNCHANGED <<component, arg, err>>
    /\ TweakIdle

NextTable == NestedTable

SpecTable == InitTable /\ [][NextTable]_vars

\* the candidates of a logical row
Candidates(row) ==
    IF IsList(row) THEN row.items
    ELSE IF IsNone(row) THEN <<>>
    ELSE <<row>>

\* the cells of a logical row that survive: its non-null candidates, as
\* cells, without the cells whose content is null
Survivors(row) ==
    LET present == SelectSeq(Candidates(row), LAMBDA x : ~IsNone(x))
        cells == [i \in 1..Len(present) |->
                    IF IsTd(present[i]) THEN present[i]
                    ELSE [t |-> "Td", contents |-> present[i], attribs |-> NoAttribs]]
    IN  SelectSeq(cells, LAMBDA x : ~IsNone(x.contents))

\* the logical rows that keep a cell, in input order
KeptRows(lines) == SelectSeq(lines, LAMBDA row : Len(Survivors(row)) > 0)

\* a Table that is not marked force-wrap
Unmarked(x) ==
    /\ IsTable(x)
    /\ ~("id" \in DOMAIN x.attribs /\ \E i \in 1..Len(x.attribs.id) : x.attribs.id[i] = "!")

\* C6: a logical row that reduces to exactly one cell whose content is a
\* Table not marked force-wrap contributes a row whose single cell holds
\* that same Table; every other row with a surviving cell contributes a row
\* whose single cell holds a new bordered sub-table of exactly the surviving
\* cells in their order.
C6_RowContent ==
    op = "nested_table" =>
        LET kept == KeptRows(arg)
        IN  \A j \in 1..Len(kept) :
                LET cells == Survivors(kept[j])
                    out == ret.rows[j]
                IN  /\ Len(out.cells) = 1
                    /\ IF Len(cells) = 1 /\ Unmarked(cells[1].contents)
                       THEN out.cells[1].contents = cells[1].contents
                       ELSE /\ IsTable(out.cells[1].contents)
                            /\ "cellborder" \in DOMAIN out.cells[1].contents.attribs
                            /\ out.cells[1].contents.attribs.cellborder = 1
                            /\ out.cells[1].contents.rows = <<[t |-> "Tr", cells |-> cells]>>

\* a row holding only an unmarked Table and a row holding only a marked one
\* have been laid out: the first reused, the second wrapped
C6_Witness ==
    /\ op = "nested_table"
    /\ arg = <<List(<<NoneV, PlainTable>>), MarkedTable>>
    /\ ret.rows[1].cells[1].contents = PlainTable
    /\ ret.rows[2].cells[1].contents.rows[1].cells[1].contents = MarkedTable

\* C7: nested_table never returns a table with zero rows: the output has
\* one row per logical row that keeps a cell, in input order, and exactly
\* one row of exactly one empty cell when no logical row keeps a cell.
C7_NeverZeroRows ==
    op = "nested_table" =>
        LET kept == KeptRows(arg)
        IN  /\ Len(ret.rows) >= 1
            /\ Len(kept) > 0 =>
                  /\ Len(ret.rows) = Len(kept)
                  /\ \A j \in 1..Len(kept) :
                         LET inner == ret.rows[j].cells[1].contents
                             cells == Survivors(kept[j])
                         IN  \/ Len(cells) = 1 /\ inner = cells[1].contents
                             \/ inner.rows[1].cells = cells
            /\ Len(kept) = 0 =>
                  /\ Len(ret.rows) = 1
                  /\ Len(ret.rows[1].cells) = 1
                  /\ ret.rows[1].cells[1].contents = [t |-> "Text", s |-> ""]

\* two logical rows that keep no cell have given the one-row table
C7_Witness ==
    /\ op = "nested_table"
    /\ arg = <<List(<<NoneV, NoneV>>), Td(NoneV, NoAttribs)>>
    /\ Len(ret.rows) = 1

(***************************************************************************)
(* Tweak Engine: apply_dot_tweaks.                                         *)
(* A line of dot.body, a keyword, an attribute name and a value are        *)
(* sequences of characters.  The values of the Tweak object are Python     *)
(* values: NoneV, PyStr(chars), PyInt(n), PyDict(items) with its items in  *)
(* insertion order, and PyList(items).                                     *)
(* The three regular expressions are matched as Python's re matches them;  *)
(* attribute names hold no character that is special in a pattern, and     *)
(* values no backslash.                                                    *)
(***************************************************************************)
PyStr(chars) == [t |-> "Str", s |-> chars]
PyInt(n) == [t |-> "Int", v |-> n]
PyDict(items) == [t |-> "Dict", items |-> items]
PyList(items) == [t |-> "PyList", items |-> items]

IsStr(x) == x.t = "Str"
IsDict(x) == x.t = "Dict"
IsPyList(x) == x.t = "PyList"

TAB == "\t"
NL == "\n"
SP == " "
QUOTE == "\""
LBRACK == "["
RBRACK == "]"
EQUALS == "="
BACKSLASH == "\\"

\* s[p:].startswith(w), p counted from 1
StartsAt(s, p, w) ==
    /\ p >= 1
    /\ p + Len(w) - 1 <= Len(s)
    /\ \A i \in 1..Len(w) : s[p + i - 1] = w[i]

RECURSIVE RunLen(_, _, _)
\* how many characters from position p on are not in stop
RunLen(s, p, stop) ==
    IF p > Len(s) \/ s[p] \in stop THEN 0 ELSE 1 + RunLen(s, p + 1, stop)

RECURSIVE CountOf(_, _, _)
\* how many characters from position p on are the character ch
CountOf(s, p, ch) ==
    IF p > Len(s) \/ s[p] # ch THEN 0 ELSE 1 + CountOf(s, p + 1, ch)

\* r" \[.*\]$" (re.S) at position p: " [", then anything, then the "]" that
\* ends the line or stands before its final newline
ListAt(entry, p) ==
    LET e == IF Len(entry) > 0 /\ entry[Len(entry)] = NL
             THEN Len(entry) - 1 ELSE Len(entry)
    IN  /\ StartsAt(entry, p, <<SP, LBRACK>>)
        /\ e > p + 1
        /\ entry[e] = RBRACK

NoMatch == [ok |-> FALSE, keyword |-> <<>>]

\* the rest of the keyword pattern, (")?((?(1)[^"]|[^ "])+)(?(1)") \[.*\]$,
\* at position p
KeywordAt(entry, p) ==
    IF p <= Len(entry) /\ entry[p] = QUOTE
    THEN LET r == RunLen(entry, p + 1, {QUOTE})
         IN  IF r >= 1 /\ StartsAt(entry, p + 1 + r, <<QUOTE>>) /\ ListAt(entry, p + 2 + r)
             THEN [ok |-> TRUE, keyword |-> SubSeq(entry, p + 1, p + r)]
             ELSE NoMatch
    ELSE LET r == RunLen(entry, p, {SP, QUOTE})
         IN  IF r >= 1 /\ ListAt(entry, p + r)
             THEN [ok |-> TRUE, keyword |-> SubSeq(entry, p, p + r - 1)]
             ELSE NoMatch

RECURSIVE KeywordFrom(_, _)
\* the match with tabs leading TABs taken, or with fewer when that fails
KeywordFrom(entry, tabs) ==
    LET m == KeywordAt(entry, tabs + 1)
    IN  IF m.ok \/ tabs = 0 THEN m ELSE KeywordFrom(entry, tabs - 1)

\* re.match(r'^\t*(")?((?(1)[^"]|[^ "])+)(?(1)") \[.*\]$', entry, re.S)
KeywordMatch(entry) == KeywordFrom(entry, CountOf(entry, 1, TAB))

\* where the value pattern ("[^"]*"|[^] ]*) that starts at v ends
ValEnd(entry, v) ==
    LET closing == {w \in (v + 1)..Len(entry) : entry[w] = QUOTE}
    IN  IF v <= Len(entry) /\ entry[v] = QUOTE /\ closing # {}
        THEN (CHOOSE w \in closing : \A x \in closing : w <= x) + 1
        ELSE v + RunLen(entry, v, {RBRACK, SP})

\* where the match of f'{attr}=("[^"]*"|[^] ]*)' at pos ends, 0 for no match
ReplMatchEnd(entry, pos, attr) ==
    IF StartsAt(entry, pos, attr \o <<EQUALS>>)
    THEN ValEnd(entry, pos + Len(attr) + 1)
    ELSE 0

\* where the match of f'( +)?{attr}=("[^"]*"|[^] ]*)(?(1)| *)' at pos ends,
\* 0 for no match
DelMatchEnd(entry, pos, attr) ==
    LET k == CountOf(entry, pos, SP)
        lead == {j \in 1..k : StartsAt(entry, pos + j, attr \o <<EQUALS>>)}
    IN  IF lead # {}
        THEN LET j == CHOOSE x \in lead : \A y \in lead : x >= y
             IN  ValEnd(entry, pos + j + Len(attr) + 1)
        ELSE IF StartsAt(entry, pos, attr \o <<EQUALS>>)
        THEN LET e == ValEnd(entry, pos + Len(attr) + 1)
             IN  e + CountOf(entry, e, SP)
        ELSE 0

RECURSIVE Subn(_, _, _, _, _, _)
\* re.subn from position pos on: every match (the first count matches when
\* count > 0) gives way to repl; mode tells the pattern
Subn(entry, attr, pos, mode, repl, count) ==
    IF pos > Len(entry) THEN [s |-> <<>>, n |-> 0]
    ELSE LET e == IF mode = "del" THEN DelMatchEnd(entry, pos, attr)
                  ELSE ReplMatchEnd(entry, pos, attr)
         IN  IF e = 0
             THEN LET rest == Subn(entry, attr, pos + 1, mode, repl, count)
                  IN  [s |-> <<entry[pos]>> \o rest.s, n |-> rest.n]
             ELSE IF count = 1
             THEN [s |-> repl \o SubSeq(entry, e, Len(entry)), n |-> 1]
             ELSE LET rest == Subn(entry, attr, e, mode, repl,
                                   IF count = 0 THEN 0 ELSE count - 1)
                  IN  [s |-> repl \o rest.s, n |-> rest.n + 1]

\* re.subn with count=1
re_subn_first(entry, attr, mode, repl) == Subn(entry, attr, 1, mode, repl, 1)

\* re.subn(pattern, repl, entry) as the code calls it, with no count
re_subn(entry, attr, mode, repl) == Subn(entry, attr, 1, mode, repl, 0)

RECURSIVE EscapeQuotes(_)
\* value.replace('"', r'\"')
EscapeQuotes(value) ==
    IF Len(value) = 0 THEN <<>>
    ELSE (IF Head(value) = QUOTE THEN <<BACKSLASH, QUOTE>> ELSE <<Head(value)>>)
         \o EscapeQuotes(Tail(value))

\* lines 604-606: whether the value gets quoted
NeedsQuotes(value) == Len(value) = 0 \/ \E i \in 1..Len(value) : value[i] = SP

\* the value as it is written
QuoteValue(value) ==
    IF NeedsQuotes(value) THEN <<QUOTE>> \o EscapeQuotes(value) \o <<QUOTE>>
    ELSE value

\* re.sub(r"\]$", f" {attr}={value}]", entry)
AppendAttr(entry, attr, value) ==
    LET e == IF Len(entry) > 0 /\ entry[Len(entry)] = NL
             THEN Len(entry) - 1 ELSE Len(entry)
    IN  IF e >= 1 /\ entry[e] = RBRACK
        THEN SubSeq(entry, 1, e - 1) \o <<SP>> \o attr \o <<EQUALS>> \o value
                 \o <<RBRACK>> \o SubSeq(entry, e + 1, Len(entry))
        ELSE entry

Warning(kind, attr, keyword, n) ==
    [kind |-> kind, attr |-> attr, keyword |-> keyword, n |-> n]

\* lines 588-617: one attribute edit on the entry
ApplyEdit(entry, keyword, attr, value) ==
    IF IsNone(value)
    THEN LET r == re_subn(entry, attr, "del", <<>>)
         IN  [entry |-> r.s,
              warnings |-> IF r.n < 1 THEN <<Warning("not found", attr, keyword, r.n)>>
                           ELSE IF r.n > 1 THEN <<Warning("removed", attr, keyword, r.n)>>
                           ELSE <<>>]
    ELSE LET v == QuoteValue(value.s)
             r == re_subn(entry, attr, "repl", attr \o <<EQUALS>> \o v)
         IN  [entry |-> IF r.n < 1 THEN AppendAttr(r.s, attr, v) ELSE r.s,
              warnings |-> IF r.n > 1 THEN <<Warning("overridden", attr, keyword, r.n)>>
                           ELSE <<>>]

RECURSIVE ApplyEdits(_, _, _)
\* the loop of line 587 over the items of tweak.override[keyword]
ApplyEdits(entry, keyword, edits) ==
    IF Len(edits) = 0 THEN [entry |-> entry, warnings |-> <<>>]
    ELSE LET one == ApplyEdit(entry, keyword, Head(edits)[1].s, Head(edits)[2])
             rest == ApplyEdits(one.entry, keyword, Tail(edits))
         IN  [entry |-> rest.entry, warnings |-> one.warnings \o rest.warnings]

\* keyword in d.keys()
HasKey(d, key) == \E i \in 1..Len(d.items) : d.items[i][1] = PyStr(key)

\* d[key]
Lookup(d, key) ==
    d.items[CHOOSE i \in 1..Len(d.items) : d.items[i][1] = PyStr(key)][2]

\* lines 579-619: the loop body for one entry
OverrideEntry(entry, override) ==
    LET m == KeywordMatch(entry)
    IN  IF ~m.ok \/ ~HasKey(override, m.keyword)
        THEN [entry |-> entry, warnings |-> <<>>]
        ELSE ApplyEdits(entry, m.keyword, Lookup(override, m.keyword).items)

RECURSIVE OverrideWarnings(_, _)
\* the warnings the loop of line 578 prints, in order
OverrideWarnings(body, override) ==
    IF Len(body) = 0 THEN <<>>
    ELSE OverrideEntry(Head(body), override).warnings
            \o OverrideWarnings(Tail(body), override)

\* dot.body after the loop of line 578
OverrideBody(body, override) ==
    [i \in 1..Len(body) |-> OverrideEntry(body[i], override).entry]

\* lines 569-575: whether a typecheck of tweak.override raises
OverrideMalformed(override) ==
    \/ ~IsDict(override)
    \/ \E i \in 1..Len(override.items) :
          LET k == override.items[i][1]
              d == override.items[i][2]
          IN  \/ ~IsStr(k)
              \/ ~IsDict(d)
              \/ \E j \in 1..Len(d.items) :
                    \/ ~IsStr(d.items[j][1])
                    \/ ~(IsStr(d.items[j][2]) \/ IsNone(d.items[j][2]))

\* lines 622-627: whether a typecheck of tweak.append raises
AppendMalformed(append) ==
    IF IsPyList(append)
    THEN \E i \in 1..Len(append.items) : ~IsStr(append.items[i])
    ELSE ~IsStr(append)

\* the lines tweak.append adds to dot.body
AppendLines(append) ==
    IF IsPyList(append) THEN [i \in 1..Len(append.items) |-> append.items[i].s]
    ELSE <<append.s>>

TypeError == "Unexpected value type"

(***************************************************************************)
(* The tweak specification: a document of statements, serialized to        *)
(* dot.body, and a Tweak object, drawn from Documents and Tweaks;          *)
(* apply_dot_tweaks runs once on them.                                     *)
(***************************************************************************)
wX == <<"X">>
wY == <<"Y">>
wZ == <<"Z">>
wAB == <<"a", " ", "b">>
wColor == <<"c", "o", "l", "o", "r">>
wFillcolor == <<"f", "i", "l", "l">> \o wColor
wSize == <<"s", "i", "z", "e">>
wWeight == <<"w", "e", "i", "g", "h", "t">>
wRed == <<"r", "e", "d">>
wGreen == <<"g", "r", "e", "e", "n">>
wBlue == <<"b", "l", "u", "e">>
wOne == <<"1">>
wTwo == <<"2">>
wQuotedRed == <<QUOTE>> \o wRed \o <<QUOTE>>
wQuotedAB == <<QUOTE>> \o wAB \o <<QUOTE>>
wAQuoteB == <<"a", " ", QUOTE, "b">>
wATabB == <<"a", TAB, "b">>
wComment == <<"/", "/", " ", "c">>
wExtra == <<"Y", " ", "-", "-", " ", "Z">>

\* a statement: leading TABs, a keyword (quoted or not) and its attribute
\* list; an attribute is <<name, value as written, what separates it from
\* what stands before it>>
Stmt(tabs, kw, quoted, attrs) ==
    [t |-> "Stmt", tabs |-> tabs, kw |-> kw, quoted |-> quoted, attrs |-> attrs]

\* a line that is no statement with an attribute list
Raw(text) == [t |-> "Raw", text |-> text]

First(name, value) == <<name, value, <<>>>>
More(name, value) == <<name, value, <<SP>>>>

RECURSIVE Flatten(_)
\* the concatenation of a sequence of sequences
Flatten(seqs) == IF Len(seqs) = 0 THEN <<>> ELSE Head(seqs) \o Flatten(Tail(seqs))

\* the line the serializer writes for a statement
Serialize(line) ==
    IF line.t = "Raw" THEN line.text
    ELSE [i \in 1..line.tabs |-> TAB]
         \o (IF line.quoted THEN <<QUOTE>> \o line.kw \o <<QUOTE>> ELSE line.kw)
         \o <<SP, LBRACK>>
         \o Flatten([i \in 1..Len(line.attrs) |->
                       line.attrs[i][3] \o line.attrs[i][1] \o <<EQUALS>> \o line.attrs[i][2]])
         \o <<RBRACK>>

SerializeAll(lines) == [i \in 1..Len(lines) |-> Serialize(lines[i])]

Statements ==
    {Stmt(0, wX, FALSE, <<First(wColor, wQuotedRed), More(wSize, wOne)>>),
     Stmt(0, wY, FALSE, <<First(wSize, wOne)>>),
     Stmt(0, wX, FALSE, <<First(wColor, wRed), More(wColor, wGreen)>>),
     Stmt(0, wX, FALSE, <<First(wFillcolor, wRed)>>),
     Stmt(0, wX, FALSE, <<First(wFillcolor, wRed), More(wColor, wGreen)>>),
     Stmt(0, wAB, TRUE, <<First(wColor, wRed)>>),
     Stmt(0, wX, FALSE, <<>>),
     Stmt(1, wX, FALSE, <<First(wSize, wOne), More(wColor, wQuotedAB)>>),
     Raw(wComment)}

Documents == SeqsUpTo(Statements, MaxLines)

Edits(keyword, edits) == <<PyStr(keyword), PyDict(edits)>>
Edit(attr, value) == <<PyStr(attr), value>>

GoodOverrides ==
    {NoneV,
     PyDict(<<>>),
     PyDict(<<Edits(wX, <<Edit(wColor, PyStr(wBlue))>>)>>),
     PyDict(<<Edits(wX, <<Edit(wColor, NoneV)>>)>>),
     PyDict(<<Edits(wX, <<Edit(wColor, PyStr(<<>>))>>)>>),
     PyDict(<<Edits(wX, <<Edit(wColor, PyStr(wAQuoteB))>>)>>),
     PyDict(<<Edits(wX, <<Edit(wColor, PyStr(wATabB))>>)>>),
     PyDict(<<Edits(wX, <<Edit(wWeight, PyStr(wTwo))>>)>>),
     PyDict(<<Edits(wX, <<Edit(wWeight, NoneV)>>)>>),
     PyDict(<<Edits(wX, <<Edit(wColor, NoneV), Edit(wSize, PyStr(wTwo))>>)>>),
     PyDict(<<Edits(wX, <<Edit(wSize, NoneV), Edit(wColor, PyStr(wBlue))>>)>>),
     PyDict(<<Edits(wZ, <<Edit(wColor, PyStr(wBlue))>>)>>),
     PyDict(<<Edits(wAB, <<Edit(wColor, PyStr(wBlue))>>)>>),
     PyDict(<<Edits(wY, <<Edit(wSize, NoneV)>>),
              Edits(wX, <<Edit(wFillcolor, PyStr(wBlue))>>)>>)}

BadOverrides ==
    {PyInt(5),
     PyDict(<<<<PyInt(5), PyDict(<<Edit(wColor, PyStr(wBlue))>>)>>>>),
     PyDict(<<<<PyStr(wX), PyStr(wBlue)>>>>),
     PyDict(<<Edits(wX, <<<<PyInt(5), PyStr(wBlue)>>>>)>>),
     PyDict(<<Edits(wX, <<Edit(wColor, PyInt(5))>>)>>),
     PyDict(<<Edits(wX, <<Edit(wColor, PyStr(wBlue)), Edit(wSize, PyInt(5))>>)>>)}

GoodAppends ==
    {NoneV, PyStr(wExtra), PyList(<<PyStr(wExtra), PyStr(wComment)>>), PyList(<<>>)}

BadAppends == {PyInt(5), PyList(<<PyStr(wExtra), PyInt(5)>>)}

Tweaks ==
    {[override |-> o, append |-> NoneV] : o \in GoodOverrides \cup BadOverrides}
    \cup {[override |-> o, append |-> a] :
              o \in {NoneV,
                     PyDict(<<Edits(wX, <<Edit(wColor, PyStr(wBlue))>>)>>),
                     PyDict(<<Edits(wX, <<Edit(wColor, NoneV)>>)>>)},
              a \in GoodAppends \cup BadAppends}

InitTweak ==
    /\ component = NoneV
    /\ op = "none"
    /\ arg \in {[lines |-> d] : d \in Documents}
    /\ ret = NoneV
    /\ err = NoErr
    /\ dot_body = SerializeAll(arg.lines)
    /\ tweak \in Tweaks
    /\ warnings = <<>>

ApplyDotTweaks ==
    /\ op = "none"
    /\ op' = "apply_dot_tweaks"
    /\ arg' = [lines |-> arg.lines, body |-> dot_body]
    /\ LET with_override == ~IsNone(tweak.override)
           override_raises == with_override /\ OverrideMalformed(tweak.override)
           overridden == with_override /\ ~override_raises
           with_append == ~override_raises /\ ~IsNone(tweak.append)
           append_raises == with_append /\ AppendMalformed(tweak.append)
           body1 == IF overridden THEN OverrideBody(dot_body, tweak.override)
                    ELSE dot_body
       IN  /\ err' = IF override_raises \/ append_raises THEN TypeError ELSE NoErr
           /\ dot_body' = IF with_append /\ ~append_raises
                          THEN body1 \o AppendLines(tweak.append)
                          ELSE body1
           /\ warnings' = IF overridden
                          THEN warnings \o OverrideWarnings(dot_body, tweak.override)
                          ELSE warnings
    /\ UNCHANGED <<component, ret, tweak>>

NextTweak == ApplyDotTweaks

SpecTweak == InitTweak /\ [][NextTweak]_vars

(***************************************************************************)
(* Properties of the tweak specification.  What an edit should do to a     *)
(* statement is told on its attribute list, attribute by attribute, and    *)
(* compared with the line the engine leaves in dot.body.                   *)
(***************************************************************************)
Called == op = "apply_dot_tweaks"

\* the override was given, passed its validation and so was applied
Overridden == Called /\ IsDict(tweak.override) /\ ~(tweak.override \in BadOverrides)

\* C2: tweak validation is all-or-nothing: whenever apply_dot_tweaks aborts
\* because a tweak input fails its type/shape validation, dot.body is what
\* it was before the call, also when override is well-formed and matches
\* lines while append is malformed.
C2_AllOrNothing ==
    (Called /\ err # NoErr) => dot_body = arg.body

\* the positions of the attributes of the list whose name is exactly a
Named(attrs, a) == {i \in 1..Len(attrs) : attrs[i][1] = a}

\* the least element of a non-empty set of numbers
Least(S) == CHOOSE x \in S : \A y \in S : x <= y

\* "quoted, with embedded quotes escaped, if it is empty or contains
\* whitespace and unquoted otherwise"
ClaimedValue(value) ==
    IF Len(value) = 0 \/ \E i \in 1..Len(value) : value[i] \in {SP, TAB, NL}
    THEN <<QUOTE>>
         \o Flatten([i \in 1..Len(value) |->
                       IF value[i] = QUOTE THEN <<BACKSLASH, QUOTE>> ELSE <<value[i]>>])
         \o <<QUOTE>>
    ELSE value

\* the attribute list after one edit; policy "first" touches the first
\* assignment of the name only, policy "all" every one
EditedAttrs(attrs, a, value, policy) ==
    LET named == Named(attrs, a)
        hit == IF policy = "first" /\ named # {} THEN {Least(named)} ELSE named
    IN  IF IsNone(value)
        THEN LET kept == SelectIdx(attrs, LAMBDA i : i \notin hit, 1)
             IN  IF 1 \in hit /\ Len(kept) > 0
                 THEN [kept EXCEPT ![1] = <<kept[1][1], kept[1][2], <<>>>>]
                 ELSE kept
        ELSE IF named = {}
        THEN Append(attrs, <<a, ClaimedValue(value.s), <<SP>>>>)
        ELSE [i \in 1..Len(attrs) |->
                 IF i \in hit THEN <<a, ClaimedValue(value.s), attrs[i][3]>>
                 ELSE attrs[i]]

RECURSIVE EditedBy(_, _, _)
\* the attribute list after the edits, in their order
EditedBy(attrs, edits, policy) ==
    IF Len(edits) = 0 THEN attrs
    ELSE EditedBy(EditedAttrs(attrs, Head(edits)[1].s, Head(edits)[2], policy),
                  Tail(edits), policy)

\* the edits the override holds for the keyword of the line, <<>> if none
EditsFor(line, override) ==
    IF line.t = "Stmt" /\ IsDict(override)
       /\ \E k \in 1..Len(override.items) : override.items[k][1] = PyStr(line.kw)
    THEN override.items[CHOOSE k \in 1..Len(override.items) :
                            override.items[k][1] = PyStr(line.kw)][2].items
    ELSE <<>>

\* the line a statement should have become
ExpectedLine(line, override, policy) ==
    IF line.t = "Stmt"
    THEN Serialize([line EXCEPT !.attrs = EditedBy(@, EditsFor(line, override), policy)])
    ELSE Serialize(line)

\* the edits of the line's keyword whose attribute stands more than once
\* in the statement
Ambiguous(line, override) ==
    {k \in 1..Len(EditsFor(line, override)) :
        Cardinality(Named(line.attrs, EditsFor(line, override)[k][1].s)) > 1}

RECURSIVE NotFoundOf(_, _, _)
\* the "not found" warnings the edits of one statement should print
NotFoundOf(attrs, kw, edits) ==
    IF Len(edits) = 0 THEN <<>>
    ELSE (IF IsNone(Head(edits)[2]) /\ Named(attrs, Head(edits)[1].s) = {}
          THEN <<Warning("not found", Head(edits)[1].s, kw, 0)>> ELSE <<>>)
         \o NotFoundOf(EditedAttrs(attrs, Head(edits)[1].s, Head(edits)[2], "all"),
                       kw, Tail(edits))

\* the "not found" warnings a document should print, in order
ExpectedNotFound(lines, override) ==
    Flatten([i \in 1..Len(lines) |->
               IF lines[i].t = "Stmt"
               THEN NotFoundOf(lines[i].attrs, lines[i].kw, EditsFor(lines[i], override))
               ELSE <<>>])

LineRedSize == wX \o <<SP, LBRACK>> \o wColor \o <<EQUALS>> \o wQuotedRed
                  \o <<SP>> \o wSize \o <<EQUALS>> \o wOne \o <<RBRACK>>
LineBlueSize == wX \o <<SP, LBRACK>> \o wColor \o <<EQUALS>> \o wBlue
                   \o <<SP>> \o wSize \o <<EQUALS>> \o wOne \o <<RBRACK>>
LineSize == wX \o <<SP, LBRACK>> \o wSize \o <<EQUALS>> \o wOne \o <<RBRACK>>

ColorToBlue == PyDict(<<Edits(wX, <<Edit(wColor, PyStr(wBlue))>>)>>)
ColorToNull == PyDict(<<Edits(wX, <<Edit(wColor, NoneV)>>)>>)

\* C10: on every line whose keyword is a key of tweak.override, every
\* attribute edit of that keyword is applied: a null value removes the
\* attribute's assignment (warning if none matched); a non-null value
\* replaces the value of the assignment if the attribute is present and
\* otherwise appends ' attr=value' before the closing bracket; the value is
\* written quoted, embedded quotes escaped, if it is empty or contains
\* whitespace, and unquoted otherwise.  Lines whose keyword is not requested
\* are unchanged and cause no warning.  X [color="red" size=1] with
\* color->blue gives X [color=blue size=1], with color->null X [size=1].
\* (The statements in which an edited attribute stands more than once are
\* the subject of C5.)
C10_OverrideEdits ==
    Overridden =>
        LET single == {i \in 1..Len(arg.lines) :
                          arg.lines[i].t = "Stmt" =>
                              Ambiguous(arg.lines[i], tweak.override) = {}}
        IN  /\ \A i \in single :
                   dot_body[i] = ExpectedLine(arg.lines[i], tweak.override, "all")
            /\ single = 1..Len(arg.lines) =>
                   SelectSeq(warnings, LAMBDA w : w.kind = "not found")
                       = ExpectedNotFound(arg.lines, tweak.override)
            /\ \A k \in 1..Len(warnings) :
                   \E i \in 1..Len(arg.lines) :
                       /\ arg.lines[i].t = "Stmt"
                       /\ arg.lines[i].kw = warnings[k].keyword
                       /\ EditsFor(arg.lines[i], tweak.override) # <<>>
            /\ \A i \in 1..Len(arg.body) :
                   arg.body[i] = LineRedSize =>
                       /\ tweak.override = ColorToBlue => dot_body[i] = LineBlueSize
                       /\ tweak.override = ColorToNull => dot_body[i] = LineSize

\* C5: when an edit matches more than one assignment on a line, only the
\* first matching assignment is replaced or removed and the later ones are
\* left as they were; a warning is printed, no error is raised, and the
\* remaining attributes and lines are processed.
C5_FirstMatchPolicy ==
    Overridden =>
        \A i \in 1..Len(arg.lines) :
            (arg.lines[i].t = "Stmt" /\ Ambiguous(arg.lines[i], tweak.override) # {}) =>
                /\ dot_body[i] = ExpectedLine(arg.lines[i], tweak.override, "first")
                /\ \E k \in 1..Len(warnings) : warnings[k].n > 1
                /\ err # NoErr => tweak.append \in BadAppends

\* where the line reads "a=", which is where the attribute's pattern matches
AssignedAt(line, a) ==
    {p \in 1..Len(line) : StartsAt(line, p, a \o <<EQUALS>>)}

\* the assignment that starts at p gives the attribute a the value q
GivesAt(line, p, a, q) ==
    /\ StartsAt(line, p + Len(a) + 1, q)
    /\ p + Len(a) + 1 + Len(q) <= Len(line)
    /\ line[p + Len(a) + 1 + Len(q)] \in {SP, RBRACK}

\* the edit <<attr, value>> is in force on the line: a deleted attribute is
\* matched nowhere, a set one is matched, and everywhere with the new value
InForce(line, edit) ==
    IF IsNone(edit[2]) THEN AssignedAt(line, edit[1].s) = {}
    ELSE /\ AssignedAt(line, edit[1].s) # {}
         /\ \A p \in AssignedAt(line, edit[1].s) :
                GivesAt(line, p, edit[1].s, QuoteValue(edit[2].s))

\* C5 as amended: when an edit matches more than one assignment on a line,
\* every matching assignment is replaced or removed, not only the first; a
\* warning that tells the number of matches is printed, no error is raised,
\* and the remaining attributes and lines are processed.
C5_EveryMatchPolicy ==
    Overridden =>
        \A i \in 1..Len(arg.lines) :
            (arg.lines[i].t = "Stmt" /\ Ambiguous(arg.lines[i], tweak.override) # {}) =>
                LET line == arg.lines[i]
                    edits == EditsFor(line, tweak.override)
                IN  /\ \A k \in Ambiguous(line, tweak.override) :
                           /\ InForce(dot_body[i], edits[k])
                           /\ \E w \in 1..Len(warnings) :
                                  /\ warnings[w].attr = edits[k][1].s
                                  /\ warnings[w].keyword = line.kw
                                  /\ warnings[w].kind = IF IsNone(edits[k][2])
                                                        THEN "removed" ELSE "overridden"
                                  /\ warnings[w].n
                                         >= Cardinality(Named(line.attrs, edits[k][1].s))
                    /\ err # NoErr => tweak.append \in BadAppends
                    /\ \A j \in 1..Len(arg.lines) :
                           LET rest == EditsFor(arg.lines[j], tweak.override)
                           IN  rest # <<>> => InForce(dot_body[j], rest[Len(rest)])

ColorNullSizeTwo ==
    PyDict(<<Edits(wX, <<Edit(wColor, NoneV), Edit(wSize, PyStr(wTwo))>>)>>)

\* color was deleted from X [color=red color=green], both assignments went,
\* and the edit of size and the next line were still processed
C5_Witness ==
    /\ Called
    /\ tweak.override = ColorNullSizeTwo
    /\ Len(arg.body) = 2
    /\ arg.body[1] = wX \o <<SP, LBRACK>> \o wColor \o <<EQUALS>> \o wRed \o <<SP>>
                        \o wColor \o <<EQUALS>> \o wGreen \o <<RBRACK>>
    /\ arg.body[2] = LineRedSize
    /\ dot_body[1] = wX \o <<SP, LBRACK, SP>> \o wSize \o <<EQUALS>> \o wTwo \o <<RBRACK>>
    /\ dot_body[2] = wX \o <<SP, LBRACK>> \o wSize \o <<EQUALS>> \o wTwo \o <<RBRACK>>
    /\ warnings = <<Warning("removed", wColor, wX, 2)>>
    /\ err = NoErr

\* the name b ends with the name a and is longer
EndsWith(b, a) ==
    Len(b) > Len(a) /\ SubSeq(b, Len(b) - Len(a) + 1, Len(b)) = a

\* the attributes of the statement that no edit names and whose name ends
\* with the name of one of the edits
SuffixNamed(line, edits) ==
    {k \in 1..Len(line.attrs) :
        /\ \A e \in 1..Len(edits) : edits[e][1].s # line.attrs[k][1]
        /\ \E e \in 1..Len(edits) : EndsWith(line.attrs[k][1], edits[e][1].s)}

\* the text "name=value" stands in the line as an assignment of its own
Assigns(line, name, value) ==
    \E p \in 2..Len(line) :
        /\ line[p - 1] \in {SP, LBRACK}
        /\ StartsAt(line, p, name \o <<EQUALS>> \o value)
        /\ p + Len(name) + 1 + Len(value) <= Len(line)
        /\ line[p + Len(name) + 1 + Len(value)] \in {SP, RBRACK}

\* C12: an override edit for the attribute a alters only the assignments to
\* the attribute named exactly a.  An assignment to another attribute whose
\* name merely ends with a (fillcolor when a is color) keeps its name and
\* value after a delete and after a replace edit, and does not count as a
\* match: a set attribute that is absent but for such a namesake is appended,
\* and the warning about several matches counts the exact assignments only.
C12_ExactNameOnly ==
    Overridden =>
        /\ \A i \in 1..Len(arg.lines) :
               arg.lines[i].t = "Stmt" =>
                   LET line == arg.lines[i]
                       edits == EditsFor(line, tweak.override)
                   IN  /\ \A k \in SuffixNamed(line, edits) :
                              Assigns(dot_body[i], line.attrs[k][1], line.attrs[k][2])
                       /\ SuffixNamed(line, edits) # {} =>
                              \A e \in 1..Len(edits) :
                                  (~IsNone(edits[e][2]) /\ Named(line.attrs, edits[e][1].s) = {})
                                      => Assigns(dot_body[i], edits[e][1].s,
                                                 QuoteValue(edits[e][2].s))
        /\ \A w \in 1..Len(warnings) :
               warnings[w].kind \in {"removed", "overridden"} =>
                   \E i \in 1..Len(arg.lines) :
                       /\ arg.lines[i].t = "Stmt"
                       /\ arg.lines[i].kw = warnings[w].keyword
                       /\ Cardinality(Named(arg.lines[i].attrs, warnings[w].attr))
                              = warnings[w].n

====
